---- MODULE Spec2Model ----
(***************************************************************************)
(* The client bindings of the experiment-tracking engine: the session/run  *)
(* lifecycle and the typed-value marshalling of                            *)
(*   src/experimental/go-sdk/bindings/cpp/lib/libwandb_cpp.cpp  (lib "cpp")*)
(*   src/core/lang/c/lib/libwandb.c                             (lib "c")  *)
(*   src/nexus/lib/clib/libwandb.c                           (lib "clib")  *)
(*   src/nexus/lib/cpplib/libwandbpp.cpp                     (lib "cpplib")*)
(*   src/nexus/lang/cpp/lib/libwandb_cpp.cpp                 (lib "nexus") *)
(* One behaviour is one process linked against one binding.  Every step of *)
(* a thread is one engine call or one access to process-wide state; the    *)
(* engine is seen only through the calls made to it, kept in `calls`.      *)
(***************************************************************************)
EXTENDS Integers, Sequences, FiniteSets, TLC

VARIABLES
  lib,              \* the binding this process is linked against
  phase,            \* "running", "exiting" (atexit handlers run), "exited", "crashed"
  defaultSession_,  \* Session::defaultSession_ : 0 is nullptr, else the Session's id
  nSessions,        \* Session objects constructed so far
  atexitFns,        \* functions registered with atexit(), in registration order
  calls,            \* the engine calls issued so far, in order (each tagged with the API call that made it)
  runs,             \* the Run objects / wandb_run structs handed to the caller
  finished,         \* per Run object: how many finish() calls have returned (observer)
  ops,              \* API calls begun so far (observer, bounds the behaviour)
  overlap,          \* API calls begun while another thread was inside one (observer)
  th                \* per thread: the frame of the API call it is executing

vars == <<lib, phase, defaultSession_, nSessions, atexitFns, calls, runs, finished, ops, overlap, th>>

(* ------------------------------ bounds -------------------------------- *)
NThreads == 2      \* threads of the process
MaxOps == 3        \* API calls begun in one behaviour
MaxOverlap == 1    \* API calls begun while another thread was inside one; none begins after the last of them
MaxKeys == 3       \* distinct keys of a key/value map
MaxVal == 2        \* distinct payloads per value type
MaxOpts == 2       \* options in one initRun option list (SpecMerge)

Threads == 1..NThreads
Keys == 1..MaxKeys

(* ------------------------------ values -------------------------------- *)
\* typedef std::variant<int, double, std::string> Value
Tags == {"int", "double", "string"}
Value == [tag : Tags, v : 1..MaxVal]
\* std::unordered_map<std::string, Value>: unique keys
AllMaps == UNION {[S -> Value] : S \in SUBSET Keys}
\* the orders in which a range-for may visit an unordered_map
Orders(m) ==
  LET n == Cardinality(DOMAIN m)
  IN {s \in [1..n -> DOMAIN m] : \A i, j \in 1..n : i # j => s[i] # s[j]}

\* pointers: nullptr, a pointer to a live object, or an indeterminate one
Null == [kind |-> "null"]
Wild == [kind |-> "wild"]
Ptr(x) == [kind |-> "obj", obj |-> x]

Settings == {"s1", "s2"}   \* the Settings objects of the caller
Names == {"", "a", "b"}

(* --------------------------- engine boundary -------------------------- *)
WANDBCORE_DATA_CREATE == 0
InvalidRun == 0
LIB_CPP == "LIB_CPP"
LIB_C == "LIB_C"

IsAdd(c) == c.op \in {"DataAddDoubles", "DataAddInts", "DataAddStrings"}
Count(P(_)) == Cardinality({i \in 1..Len(calls) : P(calls[i])})
\* a data handle the engine has not handed out before
FreshData == 1 + Count(LAMBDA c : IsAdd(c) /\ c.h = WANDBCORE_DATA_CREATE)
\* EngineDataAdd of an engine that hands out one handle for every creation
EngineDataAddReuses(h) == IF h = WANDBCORE_DATA_CREATE THEN 1 ELSE h
\* wandbcoreDataAdd*(h, ...): extends h, or a new handle for WANDBCORE_DATA_CREATE
EngineDataAdd(h) == IF h = WANDBCORE_DATA_CREATE THEN FreshData ELSE h
\* a run handle the engine has not handed out before
FreshRun == 1 + Count(LAMBDA c : c.op = "Init")
\* wandbcoreInit returns a new run handle, or a non-valid one when it fails
EngineInitResults == {FreshRun, InvalidRun}

(* ------------------------------ Data::Data ----------------------------- *)
NoBatches ==
  [keyDoubles |-> <<>>, valDoubles |-> <<>>, keyInts |-> <<>>, valInts |-> <<>>,
   keyStrings |-> <<>>, valStrings |-> <<>>]

\* PushEntry without its last branch: a text entry goes nowhere
PushEntryDropsText(b, key, val) ==
  IF val.tag = "int"
    THEN [b EXCEPT !.keyInts = Append(@, key), !.valInts = Append(@, val.v)]
  ELSE IF val.tag = "double"
    THEN [b EXCEPT !.keyDoubles = Append(@, key), !.valDoubles = Append(@, val.v)]
  ELSE b

\* PushEntry with the value of an int entry pushed on the vector of the doubles
PushEntryCrossed(b, key, val) ==
  IF val.tag = "int"
    THEN [b EXCEPT !.keyInts = Append(@, key), !.valDoubles = Append(@, val.v)]
  ELSE IF val.tag = "double"
    THEN [b EXCEPT !.keyDoubles = Append(@, key), !.valDoubles = Append(@, val.v)]
  ELSE IF val.tag = "string"
    THEN [b EXCEPT !.keyStrings = Append(@, key), !.valStrings = Append(@, val.v)]
  ELSE b

\* one iteration of the loop: the entry goes to the vectors of its alternative
PushEntry(b, key, val) ==
  IF val.tag = "int"
    THEN [b EXCEPT !.keyInts = Append(@, key), !.valInts = Append(@, val.v)]
  ELSE IF val.tag = "double"
    THEN [b EXCEPT !.keyDoubles = Append(@, key), !.valDoubles = Append(@, val.v)]
  ELSE IF val.tag = "string"
    THEN [b EXCEPT !.keyStrings = Append(@, key), !.valStrings = Append(@, val.v)]
  ELSE b

RECURSIVE DataLoop(_, _, _)
DataLoop(myMap, order, b) ==
  IF order = <<>> THEN b
  ELSE DataLoop(myMap, Tail(order), PushEntry(b, Head(order), myMap[Head(order)]))

(* ------------------------------- frames ------------------------------- *)
Idle ==
  [pc |-> "idle", op |-> "none", id |-> 0, afterFinish |-> FALSE, run |-> 0,
   session |-> 0, opts |-> <<>>,
   settings |-> Null, config |-> Null, name |-> "", runID |-> "", project |-> "",
   myMap |-> Null, b |-> NoBatches, data_num |-> 0, num |-> 0, cont |-> "none"]

Running == phase = "running"
Busy(t) == \E u \in Threads \ {t} : th[u].pc # "idle"
CanBegin(t) == Running /\ th[t].pc = "idle"
\* the API calls one behaviour of Spec begins
Budget == ops < MaxOps /\ overlap < MaxOverlap
\* the bookkeeping of an API call that begins
Begun(t) ==
  /\ ops' = ops + 1
  /\ overlap' = IF Busy(t) THEN overlap + 1 ELSE overlap
Call(t, c) == Append(calls, c @@ [id |-> th[t].id])

Init ==
  /\ lib \in {"cpp", "c", "clib", "cpplib"}
  /\ phase = "running"
  /\ defaultSession_ = 0
  /\ nSessions = 0
  /\ atexitFns = <<>>
  /\ calls = <<>>
  /\ runs = <<>>
  /\ finished = <<>>
  /\ ops = 0
  /\ overlap = 0
  /\ th = [t \in Threads |-> Idle]

(* --------------------------- run::InitRunOption ------------------------ *)
\* InitRunOption(): settings(nullptr), config(nullptr); the strings start empty
InitRunOption ==
  [kind |-> "InitRunOption", settings |-> Null, config |-> Null,
   name |-> "", runID |-> "", project |-> ""]
WithSettings(s) == [InitRunOption EXCEPT !.kind = "WithSettings", !.settings = Ptr(s)]
WithConfig(c) == [InitRunOption EXCEPT !.kind = "WithConfig", !.config = Ptr(c)]
WithRunName(n) == [InitRunOption EXCEPT !.kind = "WithRunName", !.name = n]
WithRunID(i) == [InitRunOption EXCEPT !.kind = "WithRunID", !.runID = i]
WithProject(p) == [InitRunOption EXCEPT !.kind = "WithProject", !.project = p]

\* an iteration that assigns the three strings without testing for empty
ApplyOptionAlways(acc, item) ==
  LET a1 == IF item.settings.kind # "null" THEN [acc EXCEPT !.settings = item.settings] ELSE acc
      a2 == IF item.config.kind # "null" THEN [a1 EXCEPT !.config = item.config] ELSE a1
      self == [WithRunName |-> "name", WithRunID |-> "runID", WithProject |-> "project"]
  IN IF item.kind \in DOMAIN self THEN [a2 EXCEPT ![self[item.kind]] = item[self[item.kind]]]
     ELSE a2

\* one iteration of the loop of Session::initRun
ApplyOption(acc, item) ==
  LET a1 == IF item.settings.kind # "null" THEN [acc EXCEPT !.settings = item.settings] ELSE acc
      a2 == IF item.config.kind # "null" THEN [a1 EXCEPT !.config = item.config] ELSE a1
      a3 == IF item.name # "" THEN [a2 EXCEPT !.name = item.name] ELSE a2
      a4 == IF item.runID # "" THEN [a3 EXCEPT !.runID = item.runID] ELSE a3
      a5 == IF item.project # "" THEN [a4 EXCEPT !.project = item.project] ELSE a4
  IN a5

RECURSIVE MergeLoop(_, _)
MergeLoop(options, acc) ==
  IF options = <<>> THEN acc
  ELSE MergeLoop(Tail(options), ApplyOption(acc, Head(options)))

\* the locals of Session::initRun before the loop: the two pointers are not
\* initialised (any value), the strings are empty
Indeterminate(objs) == {Null, Wild} \cup {Ptr(x) : x \in objs}
Locals(gs, gc) == [settings |-> gs, config |-> gc, name |-> "", runID |-> "", project |-> ""]

(* ------------------ the inputs the callers of Spec pass ---------------- *)
\* the maps of examples/train.cpp, one entry per value type at most
Val(tag, v) == [tag |-> tag, v |-> v]
MapNumText == (1 :> Val("double", 1)) @@ (2 :> Val("string", 1))
MapConfig == (1 :> Val("int", 1)) @@ (2 :> Val("double", 1)) @@ (3 :> Val("string", 1))
MainMaps == {MapNumText}
MainOptions == {<<>>, <<WithConfig(MapConfig)>>, <<WithRunName("a"), WithProject("b")>>}

(* --------------------------- lib "cpp": Data --------------------------- *)
\* the add calls of Data::Data in the order of the source, and the vectors each sends
AddPcs == <<"add_dbl", "add_int", "add_str">>
AddFn(pc) ==
  IF pc = "add_dbl" THEN "DataAddDoubles" ELSE IF pc = "add_int" THEN "DataAddInts" ELSE "DataAddStrings"
AddKeys(b, pc) ==
  IF pc = "add_dbl" THEN b.keyDoubles ELSE IF pc = "add_int" THEN b.keyInts ELSE b.keyStrings
AddVals(b, pc) ==
  IF pc = "add_dbl" THEN b.valDoubles ELSE IF pc = "add_int" THEN b.valInts ELSE b.valStrings

\* AddsAfter without the three size tests: every add call is made
AddsAfterAll(b, k) == (k + 1)..Len(AddPcs)
\* if (keyDoubles.size()) ... if (keyInts.size()) ... if (keyStrings.size()) ...:
\* the add calls after the k-th that are made
AddsAfter(b, k) == {i \in (k + 1)..Len(AddPcs) : Len(AddKeys(b, AddPcs[i])) # 0}

\* Advance that leaves this->num at 0 instead of storing data_num
AdvanceDropsHandle(f, k) ==
  LET S == AddsAfter(f.b, k)
  IN IF S = {} THEN [f EXCEPT !.num = WANDBCORE_DATA_CREATE, !.pc = f.cont]
     ELSE [f EXCEPT !.pc = AddPcs[CHOOSE i \in S : \A j \in S : i <= j]]
\* the frame at the next engine call of Data::Data, or, past the last one, with
\* this->num = data_num back in the caller of new Data(...)
Advance(f, k) ==
  LET S == AddsAfter(f.b, k)
  IN IF S = {} THEN [f EXCEPT !.num = f.data_num, !.pc = f.cont]
     ELSE [f EXCEPT !.pc = AddPcs[CHOOSE i \in S : \A j \in S : i <= j]]

\* new Data(ptr) up to its first engine call; a pointer that points nowhere faults
NewData(t, f, ptr) ==
  \/ /\ ptr.kind = "null"
     /\ th' = [th EXCEPT ![t] = [f EXCEPT !.myMap = ptr, !.num = 0, !.pc = f.cont]]
     /\ UNCHANGED phase
  \/ /\ ptr.kind = "wild"
     /\ th' = [th EXCEPT ![t] = [f EXCEPT !.myMap = ptr]]
     /\ phase' = "crashed"
  \/ /\ ptr.kind = "obj"
     /\ \E order \in Orders(ptr.obj) :
          th' = [th EXCEPT ![t] =
                   Advance([f EXCEPT !.myMap = ptr,
                                     !.b = DataLoop(ptr.obj, order, NoBatches),
                                     !.data_num = WANDBCORE_DATA_CREATE], 0)]
     /\ UNCHANGED phase

\* Data::~Data: the engine calls the destructor of a Data holding num makes.
\* Both Data objects of the binding are made by new and no delete expression
\* names them, so no step of the process runs it.
DataDtor(num) == IF num = 0 THEN <<>> ELSE <<[op |-> "DataFree", h |-> num]>>

\* DataAdd that passes WANDBCORE_DATA_CREATE to every add call
DataAddFresh(t, k) ==
  /\ Running /\ th[t].pc = AddPcs[k]
  /\ LET ret == EngineDataAdd(WANDBCORE_DATA_CREATE)
         keys == AddKeys(th[t].b, AddPcs[k])
     IN /\ calls' = Call(t, [op |-> AddFn(AddPcs[k]), h |-> WANDBCORE_DATA_CREATE, n |-> Len(keys),
                             keys |-> keys, vals |-> AddVals(th[t].b, AddPcs[k]), ret |-> ret])
        /\ th' = [th EXCEPT ![t] = Advance([th[t] EXCEPT !.data_num = ret], k)]
  /\ UNCHANGED <<lib, phase, defaultSession_, nSessions, atexitFns, runs, finished, ops, overlap>>

\* data_num = wandbcoreDataAdd<T>(data_num, keys.size(), &keys[0], &vals[0]);
DataAdd(t, k) ==
  /\ Running /\ th[t].pc = AddPcs[k]
  /\ LET ret == EngineDataAdd(th[t].data_num)
         keys == AddKeys(th[t].b, AddPcs[k])
     IN /\ calls' = Call(t, [op |-> AddFn(AddPcs[k]), h |-> th[t].data_num, n |-> Len(keys),
                             keys |-> keys, vals |-> AddVals(th[t].b, AddPcs[k]), ret |-> ret])
        /\ th' = [th EXCEPT ![t] = Advance([th[t] EXCEPT !.data_num = ret], k)]
  /\ UNCHANGED <<lib, phase, defaultSession_, nSessions, atexitFns, runs, finished, ops, overlap>>

(* ------------------------- lib "cpp": Session -------------------------- *)
IsCpp == lib = "cpp"

\* auto wb = new wandb::Session();
NewSession(t) ==
  /\ IsCpp /\ CanBegin(t)
  /\ Begun(t)
  /\ nSessions' = nSessions + 1
  /\ defaultSession_' = nSessions + 1
  /\ UNCHANGED <<lib, phase, atexitFns, calls, runs, finished, th>>

\* wandb::initRun(options): enters Session::GetInstance
BeginInitRunFree(t, options) ==
  /\ IsCpp /\ CanBegin(t)
  /\ Begun(t)
  /\ th' = [th EXCEPT ![t] = [Idle EXCEPT !.pc = "gi_check", !.op = "initRun",
                                         !.id = ops + 1, !.opts = options]]
  /\ UNCHANGED <<lib, phase, defaultSession_, nSessions, atexitFns, calls, runs, finished>>

\* if (defaultSession_ == nullptr)
GetInstanceCheck(t) ==
  /\ Running /\ th[t].pc = "gi_check"
  /\ th' = [th EXCEPT ![t].pc = IF defaultSession_ = 0 THEN "gi_new" ELSE "gi_ret"]
  /\ UNCHANGED <<lib, phase, defaultSession_, nSessions, atexitFns, calls, runs, finished, ops, overlap>>

\* new Session(nullptr), whose constructor sets defaultSession_
GetInstanceNew(t) ==
  /\ Running /\ th[t].pc = "gi_new"
  /\ nSessions' = nSessions + 1
  /\ defaultSession_' = nSessions + 1
  /\ th' = [th EXCEPT ![t].pc = "gi_ret"]
  /\ UNCHANGED <<lib, phase, atexitFns, calls, runs, finished, ops, overlap>>

\* Session::initRun on session s: the loop over the options, up to the call
\* this->_initRun(settings, config, name, runID, project)
Resolved(f, s, gs, gc) ==
  LET r == MergeLoop(f.opts, Locals(gs, gc))
  IN [f EXCEPT !.session = s, !.settings = r.settings, !.config = r.config, !.name = r.name,
               !.runID = r.runID, !.project = r.project, !.pc = "setup"]

\* return defaultSession_;  then s->initRun(options)
GetInstanceRet(t, garbageS, garbageC) ==
  /\ IsCpp /\ Running /\ th[t].pc = "gi_ret"
  /\ \E gs \in garbageS, gc \in garbageC :
       th' = [th EXCEPT ![t] = Resolved(th[t], defaultSession_, gs, gc)]
  /\ UNCHANGED <<lib, phase, defaultSession_, nSessions, atexitFns, calls, runs, finished, ops, overlap>>

\* wb->initRun(options) on a Session the caller constructed
BeginInitRunOn(t, s, options, garbageS, garbageC) ==
  /\ IsCpp /\ CanBegin(t)
  /\ s \in 1..nSessions
  /\ Begun(t)
  /\ \E gs \in garbageS, gc \in garbageC :
       th' = [th EXCEPT ![t] = Resolved([Idle EXCEPT !.op = "initRun", !.id = ops + 1,
                                                    !.opts = options], s, gs, gc)]
  /\ UNCHANGED <<lib, phase, defaultSession_, nSessions, atexitFns, calls, runs, finished>>

\* SessionSetup that leaves out the engine setup call
SessionSetupSkipped(t) ==
  /\ Running /\ th[t].pc = "setup"
  /\ th' = [th EXCEPT ![t].pc = "atexit", ![t].settings = Null]
  /\ UNCHANGED <<lib, phase, defaultSession_, nSessions, atexitFns, calls, runs, finished, ops, overlap>>

\* _initRun: _session_setup(): wandbcoreSetup();
SessionSetup(t) ==
  /\ Running /\ th[t].pc = "setup"
  /\ calls' = Call(t, [op |-> "Setup"])
  \* _initRun does not read settings
  /\ th' = [th EXCEPT ![t].pc = "atexit", ![t].settings = Null]
  /\ UNCHANGED <<lib, phase, defaultSession_, nSessions, atexitFns, runs, finished, ops, overlap>>

\* _session_setup: atexit(_session_teardown);  then auto configData = new Data(config);
SessionAtexit(t) ==
  /\ IsCpp /\ Running /\ th[t].pc = "atexit"
  /\ atexitFns' = Append(atexitFns, "_session_teardown")
  /\ NewData(t, [th[t] EXCEPT !.cont = "init"], th[t].config)
  /\ UNCHANGED <<lib, defaultSession_, nSessions, calls, runs, finished, ops, overlap>>

(* ---------------------------- lib "cpp": Run --------------------------- *)
\* int n = wandbcoreInit(configData->num, name, runID, project, LIB_CPP); return r
\* (configData is not deleted)
CoreInit(t) ==
  /\ Running /\ th[t].pc = "init"
  /\ \E n \in EngineInitResults :
       /\ calls' = Call(t, [op |-> "Init", data |-> th[t].num, name |-> th[t].name,
                            runID |-> th[t].runID, project |-> th[t].project,
                            lib |-> LIB_CPP, ret |-> n])
       /\ runs' = Append(runs, [num |-> n])
  /\ finished' = Append(finished, 0)
  /\ th' = [th EXCEPT ![t] = Idle]
  /\ UNCHANGED <<lib, phase, defaultSession_, nSessions, atexitFns, ops, overlap>>

\* run.log(myMap): auto data = new Data(&myMap);
BeginLog(t, r, m) ==
  /\ IsCpp /\ CanBegin(t)
  /\ r \in 1..Len(runs)
  /\ Begun(t)
  /\ NewData(t, [Idle EXCEPT !.op = "log", !.id = ops + 1, !.afterFinish = finished[r] > 0,
                             !.run = r, !.cont = "logdata"], Ptr(m))
  /\ UNCHANGED <<lib, defaultSession_, nSessions, atexitFns, calls, runs, finished>>

\* LogData that makes the engine call twice
LogDataTwice(t) ==
  /\ Running /\ th[t].pc = "logdata"
  /\ calls' = calls \o <<[op |-> "LogData", run |-> runs[th[t].run].num, data |-> th[t].num,
                          id |-> th[t].id],
                         [op |-> "LogData", run |-> runs[th[t].run].num, data |-> th[t].num,
                          id |-> th[t].id]>>
  /\ th' = [th EXCEPT ![t] = Idle]
  /\ UNCHANGED <<lib, phase, defaultSession_, nSessions, atexitFns, runs, finished, ops, overlap>>

\* LogData that also finishes the run
LogDataFinishes(t) ==
  /\ Running /\ th[t].pc = "logdata"
  /\ calls' = calls \o <<[op |-> "LogData", run |-> runs[th[t].run].num, data |-> th[t].num,
                          id |-> th[t].id],
                         [op |-> "Finish", run |-> runs[th[t].run].num, id |-> th[t].id]>>
  /\ th' = [th EXCEPT ![t] = Idle]
  /\ UNCHANGED <<lib, phase, defaultSession_, nSessions, atexitFns, runs, finished, ops, overlap>>

\* LogData that asks the engine for a handle when the Data holds none
LogDataFreshHandle(t) ==
  /\ Running /\ th[t].pc = "logdata"
  /\ calls' = Call(t, [op |-> "LogData", run |-> runs[th[t].run].num,
                       data |-> IF th[t].num = WANDBCORE_DATA_CREATE THEN FreshData
                                ELSE th[t].num])
  /\ th' = [th EXCEPT ![t] = Idle]
  /\ UNCHANGED <<lib, phase, defaultSession_, nSessions, atexitFns, runs, finished, ops, overlap>>

\* wandbcoreLogData(this->_num, data->num);  the Data object is not deleted
LogData(t) ==
  /\ Running /\ th[t].pc = "logdata"
  /\ calls' = Call(t, [op |-> "LogData", run |-> runs[th[t].run].num, data |-> th[t].num])
  /\ th' = [th EXCEPT ![t] = Idle]
  /\ UNCHANGED <<lib, phase, defaultSession_, nSessions, atexitFns, runs, finished, ops, overlap>>

\* Finish that calls wandbcoreFinish twice
FinishTwice(t, r) ==
  /\ IsCpp /\ CanBegin(t)
  /\ r \in 1..Len(runs)
  /\ Begun(t)
  /\ calls' = calls \o <<[op |-> "Finish", run |-> runs[r].num, id |-> ops + 1],
                         [op |-> "Finish", run |-> runs[r].num, id |-> ops + 1]>>
  /\ finished' = [finished EXCEPT ![r] = @ + 1]
  /\ UNCHANGED <<lib, phase, defaultSession_, nSessions, atexitFns, runs, th>>

\* Finish that passes the handle of the first Run, whichever Run it is called on
FinishFirstRun(t, r) ==
  /\ IsCpp /\ CanBegin(t)
  /\ r \in 1..Len(runs)
  /\ Begun(t)
  /\ calls' = Append(calls, [op |-> "Finish", run |-> runs[1].num, id |-> ops + 1])
  /\ finished' = [finished EXCEPT ![r] = @ + 1]
  /\ UNCHANGED <<lib, phase, defaultSession_, nSessions, atexitFns, runs, th>>

\* run.finish(): wandbcoreFinish(this->_num)
Finish(t, r) ==
  /\ IsCpp /\ CanBegin(t)
  /\ r \in 1..Len(runs)
  /\ Begun(t)
  /\ calls' = Append(calls, [op |-> "Finish", run |-> runs[r].num, id |-> ops + 1])
  /\ finished' = [finished EXCEPT ![r] = @ + 1]
  /\ UNCHANGED <<lib, phase, defaultSession_, nSessions, atexitFns, runs, th>>

\* wandb::Run run;  Run::Run() : _num(0), a Run no creation returned
DefaultRun(t) ==
  /\ IsCpp /\ CanBegin(t)
  /\ Begun(t)
  /\ runs' = Append(runs, [num |-> 0, ctor |-> "Run()"])
  /\ finished' = Append(finished, 0)
  /\ UNCHANGED <<lib, phase, defaultSession_, nSessions, atexitFns, calls, th>>

(* ----------------------------- process exit ---------------------------- *)
\* main returns: exit() runs the registered functions, last registered first
Exit ==
  /\ Running /\ \A t \in Threads : th[t].pc = "idle"
  /\ phase' = IF atexitFns = <<>> THEN "exited" ELSE "exiting"
  /\ UNCHANGED <<lib, defaultSession_, nSessions, atexitFns, calls, runs, finished, ops, overlap, th>>

\* _session_teardown / wandb_teardown run as an atexit function: wandbcoreTeardown()
AtexitTeardown ==
  /\ phase = "exiting"
  /\ calls' = Append(calls, [op |-> "Teardown", id |-> 0])
  /\ atexitFns' = SubSeq(atexitFns, 1, Len(atexitFns) - 1)
  /\ phase' = IF Len(atexitFns) = 1 THEN "exited" ELSE "exiting"
  /\ UNCHANGED <<lib, defaultSession_, nSessions, runs, finished, ops, overlap, th>>

(* --------------------------- lib "c" and "clib" ------------------------ *)
\* src/nexus/lib/clib/libwandb.c is libwandb.c with an engine init call without
\* arguments and a log that is one engine call
IsC == lib \in {"c", "clib"}
\* the scalars the C caller logs
CKeys == {1}
CValues == {1}

\* wandb_setup() called by the program itself
BeginCSetup(t) ==
  /\ IsC /\ CanBegin(t)
  /\ Begun(t)
  /\ th' = [th EXCEPT ![t] = [Idle EXCEPT !.pc = "c_setup", !.op = "wandb_setup",
                                         !.id = ops + 1, !.cont = "idle"]]
  /\ UNCHANGED <<lib, phase, defaultSession_, nSessions, atexitFns, calls, runs, finished>>

\* wandb_init(run): wandb_setup();
BeginCInit(t) ==
  /\ IsC /\ CanBegin(t)
  /\ Begun(t)
  /\ th' = [th EXCEPT ![t] = [Idle EXCEPT !.pc = "c_setup", !.op = "wandb_init",
                                         !.id = ops + 1, !.cont = "c_init"]]
  /\ UNCHANGED <<lib, phase, defaultSession_, nSessions, atexitFns, calls, runs, finished>>

\* wandb_setup: wandbcoreSetup();
CSetup(t) ==
  /\ Running /\ th[t].pc = "c_setup"
  /\ calls' = Call(t, [op |-> "Setup"])
  /\ th' = [th EXCEPT ![t].pc = "c_atexit"]
  /\ UNCHANGED <<lib, phase, defaultSession_, nSessions, atexitFns, runs, finished, ops, overlap>>

\* CAtexit that registers nothing
CAtexitForgets(t) ==
  /\ Running /\ th[t].pc = "c_atexit"
  /\ th' = [th EXCEPT ![t] = IF th[t].cont = "idle" THEN Idle ELSE [th[t] EXCEPT !.pc = th[t].cont]]
  /\ UNCHANGED <<lib, phase, defaultSession_, nSessions, atexitFns, calls, runs, finished, ops, overlap>>

\* wandb_setup: atexit(wandb_teardown);
CAtexit(t) ==
  /\ Running /\ th[t].pc = "c_atexit"
  /\ atexitFns' = Append(atexitFns, "wandb_teardown")
  /\ th' = [th EXCEPT ![t] = IF th[t].cont = "idle" THEN Idle ELSE [th[t] EXCEPT !.pc = th[t].cont]]
  /\ UNCHANGED <<lib, phase, defaultSession_, nSessions, calls, runs, finished, ops, overlap>>

\* CInit that reports a non-valid handle to its caller
CInitChecks(t) ==
  /\ Running /\ th[t].pc = "c_init"
  /\ \E n \in EngineInitResults :
       /\ calls' = Call(t, IF lib = "clib" THEN [op |-> "Init", ret |-> n]
                           ELSE [op |-> "Init", data |-> 0, name |-> "", runID |-> "",
                                 project |-> "", lib |-> LIB_C, ret |-> n])
       /\ runs' = Append(runs, [num |-> n, rc |-> IF n = InvalidRun THEN 1 ELSE 0])
  /\ finished' = Append(finished, 0)
  /\ th' = [th EXCEPT ![t] = Idle]
  /\ UNCHANGED <<lib, phase, defaultSession_, nSessions, atexitFns, ops, overlap>>

\* int n = wandbcoreInit(0, "", "", "", LIB_C); run->num = n; return 0;
\* (clib: int n = wandbcore_init();)  rc is what wandb_init returns
CInit(t) ==
  /\ Running /\ th[t].pc = "c_init"
  /\ \E n \in EngineInitResults :
       /\ calls' = Call(t, IF lib = "clib" THEN [op |-> "Init", ret |-> n]
                           ELSE [op |-> "Init", data |-> 0, name |-> "", runID |-> "",
                                 project |-> "", lib |-> LIB_C, ret |-> n])
       /\ runs' = Append(runs, [num |-> n, rc |-> 0])
  /\ finished' = Append(finished, 0)
  /\ th' = [th EXCEPT ![t] = Idle]
  /\ UNCHANGED <<lib, phase, defaultSession_, nSessions, atexitFns, ops, overlap>>

\* wandb_log_scaler: int data = wandbcoreDataAddDoubles(WANDBCORE_DATA_CREATE, 1, &key, &value);
BeginCLog(t, r, key, value) ==
  /\ lib = "c" /\ CanBegin(t)
  /\ r \in 1..Len(runs)
  /\ Begun(t)
  /\ LET ret == EngineDataAdd(WANDBCORE_DATA_CREATE)
     IN /\ calls' = Append(calls, [op |-> "DataAddDoubles", h |-> WANDBCORE_DATA_CREATE, n |-> 1,
                                   keys |-> <<key>>, vals |-> <<value>>, ret |-> ret,
                                   id |-> ops + 1])
        /\ th' = [th EXCEPT ![t] = [Idle EXCEPT !.pc = "c_log", !.op = "wandb_log_scaler",
                                               !.id = ops + 1, !.afterFinish = finished[r] > 0,
                                               !.run = r, !.num = ret]]
  /\ UNCHANGED <<lib, phase, defaultSession_, nSessions, atexitFns, runs, finished>>

\* wandb_log_scaler: wandbcoreLogData(run->num, data);  data is not freed
CLogData(t) ==
  /\ Running /\ th[t].pc = "c_log"
  /\ calls' = Call(t, [op |-> "LogData", run |-> runs[th[t].run].num, data |-> th[t].num])
  /\ th' = [th EXCEPT ![t] = Idle]
  /\ UNCHANGED <<lib, phase, defaultSession_, nSessions, atexitFns, runs, finished, ops, overlap>>

\* clib wandb_log_scaler: int num = run->num; wandbcore_log_scaler(num, key, value);
ClibLogScaler(t, r, key, value) ==
  /\ lib = "clib" /\ CanBegin(t)
  /\ r \in 1..Len(runs)
  /\ Begun(t)
  /\ calls' = Append(calls, [op |-> "LogScaler", run |-> runs[r].num, key |-> key,
                             value |-> value, id |-> ops + 1])
  /\ UNCHANGED <<lib, phase, defaultSession_, nSessions, atexitFns, runs, finished, th>>

\* wandb_finish(run): wandbcoreFinish(run->num)
CFinish(t, r) ==
  /\ IsC /\ CanBegin(t)
  /\ r \in 1..Len(runs)
  /\ Begun(t)
  /\ calls' = Append(calls, [op |-> "Finish", run |-> runs[r].num, id |-> ops + 1])
  /\ finished' = [finished EXCEPT ![r] = @ + 1]
  /\ UNCHANGED <<lib, phase, defaultSession_, nSessions, atexitFns, runs, th>>

\* wandb_teardown() called by the program itself: wandbcoreTeardown()
CTeardown(t) ==
  /\ IsC /\ CanBegin(t)
  /\ Begun(t)
  /\ calls' = Append(calls, [op |-> "Teardown", id |-> ops + 1])
  /\ UNCHANGED <<lib, phase, defaultSession_, nSessions, atexitFns, runs, finished, th>>

(* ----------------------------- lib "cpplib" ---------------------------- *)
\* src/nexus/lib/cpplib/libwandbpp.cpp: the maps of this generation hold doubles
IsCpplib == lib = "cpplib"
DoubleMaps == {m \in AllMaps : \A k \in DOMAIN m : m[k].tag = "double"}

\* one iteration of the loop of Run::log: keys.push_back(key); values.push_back(value)
PPPushEntry(b, key, val) ==
  [b EXCEPT !.keyDoubles = Append(@, key), !.valDoubles = Append(@, val.v)]

RECURSIVE PPLoop(_, _, _)
PPLoop(myMap, order, b) ==
  IF order = <<>> THEN b
  ELSE PPLoop(myMap, Tail(order), PPPushEntry(b, Head(order), myMap[Head(order)]))

\* session.initRun(): _initRun(NULL) enters _session_setup
BeginPPInitRun(t) ==
  /\ IsCpplib /\ CanBegin(t)
  /\ Begun(t)
  /\ th' = [th EXCEPT ![t] = [Idle EXCEPT !.pc = "pp_setup", !.op = "initRun", !.id = ops + 1]]
  /\ UNCHANGED <<lib, phase, defaultSession_, nSessions, atexitFns, calls, runs, finished>>

\* _session_setup: wandbcoreSetup();
PPSetup(t) ==
  /\ Running /\ th[t].pc = "pp_setup"
  /\ calls' = Call(t, [op |-> "Setup"])
  /\ th' = [th EXCEPT ![t].pc = "pp_atexit"]
  /\ UNCHANGED <<lib, phase, defaultSession_, nSessions, atexitFns, runs, finished, ops, overlap>>

\* _session_setup: atexit(_session_teardown);
PPAtexit(t) ==
  /\ Running /\ th[t].pc = "pp_atexit"
  /\ atexitFns' = Append(atexitFns, "_session_teardown")
  /\ th' = [th EXCEPT ![t].pc = "pp_init"]
  /\ UNCHANGED <<lib, phase, defaultSession_, nSessions, calls, runs, finished, ops, overlap>>

\* int n = wandbcoreInit(); auto r = Run(); r._num = n; return r;
PPInit(t) ==
  /\ Running /\ th[t].pc = "pp_init"
  /\ \E n \in EngineInitResults :
       /\ calls' = Call(t, [op |-> "Init", ret |-> n])
       /\ runs' = Append(runs, [num |-> n])
  /\ finished' = Append(finished, 0)
  /\ th' = [th EXCEPT ![t] = Idle]
  /\ UNCHANGED <<lib, phase, defaultSession_, nSessions, atexitFns, ops, overlap>>

\* run.log(myMap): the loop that fills keys and values
BeginPPLog(t, r, m) ==
  /\ IsCpplib /\ CanBegin(t)
  /\ r \in 1..Len(runs)
  /\ Begun(t)
  /\ \E order \in Orders(m) :
       th' = [th EXCEPT ![t] = [Idle EXCEPT !.pc = "pp_logdoubles", !.op = "log", !.id = ops + 1,
                                           !.afterFinish = finished[r] > 0, !.run = r,
                                           !.myMap = Ptr(m), !.b = PPLoop(m, order, NoBatches)]]
  /\ UNCHANGED <<lib, phase, defaultSession_, nSessions, atexitFns, calls, runs, finished>>

\* this->log(keys, values): wandbcoreLogDoubles(this->_num, 1, keys.size(), &keys[0], &values[0]);
\* keys[0] of an empty vector is undefined: the build either forms the address
\* without reading it and makes the call with count 0, or stops the process
\* at the bounds check of operator[]
PPLogDoubles(t) ==
  /\ Running /\ th[t].pc = "pp_logdoubles"
  /\ \/ /\ calls' = Call(t, [op |-> "LogDoubles", run |-> runs[th[t].run].num, commit |-> 1,
                             n |-> Len(th[t].b.keyDoubles), keys |-> th[t].b.keyDoubles,
                             vals |-> th[t].b.valDoubles])
        /\ th' = [th EXCEPT ![t] = Idle]
        /\ UNCHANGED phase
     \/ /\ Len(th[t].b.keyDoubles) = 0
        /\ phase' = "crashed"
        /\ UNCHANGED <<calls, th>>
  /\ UNCHANGED <<lib, defaultSession_, nSessions, atexitFns, runs, finished, ops, overlap>>

\* run.finish(): wandbcoreFinish(this->_num)
PPFinish(t, r) ==
  /\ IsCpplib /\ CanBegin(t)
  /\ r \in 1..Len(runs)
  /\ Begun(t)
  /\ calls' = Append(calls, [op |-> "Finish", run |-> runs[r].num, id |-> ops + 1])
  /\ finished' = [finished EXCEPT ![r] = @ + 1]
  /\ UNCHANGED <<lib, phase, defaultSession_, nSessions, atexitFns, runs, th>>

(* ----------------------------- lib "nexus" ----------------------------- *)
\* src/nexus/lang/cpp/lib/libwandb_cpp.cpp: Data, Run, GetInstance and
\* _session_setup are those of lib "cpp"; the options carry name and runID as
\* pointers to strings, and initRun and _initRun differ
IsNexus == lib = "nexus"
NexusNames == {"a", "b"}

\* InitRunOption(): settings(nullptr), config(nullptr); an option that was not
\* built by WithName / WithRunID refers to no name / runID
NexusInitRunOption ==
  [kind |-> "InitRunOption", settings |-> Null, config |-> Null, name |-> Null, runID |-> Null]
NexusWithSettings(s) == [NexusInitRunOption EXCEPT !.kind = "WithSettings", !.settings = Ptr(s)]
NexusWithConfig(c) == [NexusInitRunOption EXCEPT !.kind = "WithConfig", !.config = Ptr(c)]
NexusWithName(n) == [NexusInitRunOption EXCEPT !.kind = "WithName", !.name = Ptr(n)]
NexusWithRunID(i) == [NexusInitRunOption EXCEPT !.kind = "WithRunID", !.runID = Ptr(i)]

\* one iteration of the loop of Session::initRun: static_cast<run::WithX *>(&item)
\* is the address of item, never nullptr, so each of the four tests passes and
\* each local takes the member of item
NexusApplyOption(acc, item) ==
  [acc EXCEPT !.settings = item.settings, !.config = item.config,
              !.name = item.name, !.runID = item.runID]

RECURSIVE NexusMergeLoop(_, _)
NexusMergeLoop(options, acc) ==
  IF options = <<>> THEN acc
  ELSE NexusMergeLoop(Tail(options), NexusApplyOption(acc, Head(options)))

\* the locals of Session::initRun before the loop: four pointers, none initialised
NexusLocals(gs, gc, gn, gi) == [settings |-> gs, config |-> gc, name |-> gn, runID |-> gi]

\* wandb::initRun(options): enters Session::GetInstance
BeginNexusInitRun(t, options) ==
  /\ IsNexus /\ CanBegin(t)
  /\ Begun(t)
  /\ th' = [th EXCEPT ![t] = [Idle EXCEPT !.pc = "gi_check", !.op = "initRun",
                                         !.id = ops + 1, !.opts = options]]
  /\ UNCHANGED <<lib, phase, defaultSession_, nSessions, atexitFns, calls, runs, finished>>

\* return defaultSession_;  then s->initRun(options) up to the call
\* this->_initRun(settings, config, name, runID)
NexusGetInstanceRet(t, garbageS, garbageC, garbageN) ==
  /\ IsNexus /\ Running /\ th[t].pc = "gi_ret"
  /\ \E gs \in garbageS, gc \in garbageC, gn \in garbageN, gi \in garbageN :
       LET r == NexusMergeLoop(th[t].opts, NexusLocals(gs, gc, gn, gi))
       IN th' = [th EXCEPT ![t] = [th[t] EXCEPT !.session = defaultSession_,
                                     !.settings = r.settings, !.config = r.config,
                                     !.name = r.name, !.runID = r.runID, !.pc = "setup"]]
  /\ UNCHANGED <<lib, phase, defaultSession_, nSessions, atexitFns, calls, runs, finished, ops, overlap>>

\* _session_setup: atexit(_session_teardown);  then auto configData = new Data(config);
NexusAtexit(t) ==
  /\ IsNexus /\ Running /\ th[t].pc = "atexit"
  /\ atexitFns' = Append(atexitFns, "_session_teardown")
  /\ NewData(t, [th[t] EXCEPT !.cont = "nx_init"], th[t].config)
  /\ UNCHANGED <<lib, defaultSession_, nSessions, calls, runs, finished, ops, overlap>>

\* if (name != nullptr) cName = name->c_str();  the same for runID;
\* int n = wandbcoreInit(configData->num, cName, cRunID);  return r
\* a pointer that points nowhere faults in c_str()
NexusCoreInit(t) ==
  /\ IsNexus /\ Running /\ th[t].pc = "nx_init"
  /\ IF th[t].name.kind = "wild" \/ th[t].runID.kind = "wild"
       THEN /\ phase' = "crashed"
            /\ UNCHANGED <<calls, runs, finished, th>>
       ELSE /\ \E n \in EngineInitResults :
                 /\ calls' = Call(t, [op |-> "Init", data |-> th[t].num, name |-> th[t].name,
                                      runID |-> th[t].runID, ret |-> n])
                 /\ runs' = Append(runs, [num |-> n])
            /\ finished' = Append(finished, 0)
            /\ th' = [th EXCEPT ![t] = Idle]
            /\ UNCHANGED phase
  /\ UNCHANGED <<lib, defaultSession_, nSessions, atexitFns, ops, overlap>>

(* --------------------------- the whole process -------------------------- *)
MainSettings == {"s1"}
MainDoubleMaps == {1 :> Val("double", 1)}
Next ==
  \/ Budget /\ \E t \in Threads : NewSession(t)
  \/ Budget /\ \E t \in Threads, o \in MainOptions : BeginInitRunFree(t, o)
  \/ \E t \in Threads : GetInstanceCheck(t)
  \/ \E t \in Threads : GetInstanceNew(t)
  \/ \E t \in Threads : GetInstanceRet(t, Indeterminate(MainSettings), Indeterminate({MapConfig}))
  \/ Budget /\ \E t \in Threads, s \in 1..nSessions, o \in MainOptions :
       BeginInitRunOn(t, s, o, Indeterminate(MainSettings), Indeterminate({MapConfig}))
  \/ \E t \in Threads : SessionSetup(t)
  \/ \E t \in Threads : SessionAtexit(t)
  \/ \E t \in Threads, k \in 1..Len(AddPcs) : DataAdd(t, k)
  \/ \E t \in Threads : CoreInit(t)
  \/ Budget /\ \E t \in Threads, r \in 1..Len(runs), m \in MainMaps : BeginLog(t, r, m)
  \/ \E t \in Threads : LogData(t)
  \/ Budget /\ \E t \in Threads, r \in 1..Len(runs) : Finish(t, r)
  \/ Budget /\ \E t \in Threads : DefaultRun(t)
  \/ Budget /\ \E t \in Threads : BeginCSetup(t)
  \/ Budget /\ \E t \in Threads : BeginCInit(t)
  \/ \E t \in Threads : CSetup(t)
  \/ \E t \in Threads : CAtexit(t)
  \/ \E t \in Threads : CInit(t)
  \/ Budget /\ \E t \in Threads, r \in 1..Len(runs), k \in CKeys, v \in CValues : BeginCLog(t, r, k, v)
  \/ \E t \in Threads : CLogData(t)
  \/ Budget /\ \E t \in Threads, r \in 1..Len(runs), k \in CKeys, v \in CValues : ClibLogScaler(t, r, k, v)
  \/ Budget /\ \E t \in Threads, r \in 1..Len(runs) : CFinish(t, r)
  \/ Budget /\ \E t \in Threads : CTeardown(t)
  \/ Budget /\ \E t \in Threads : BeginPPInitRun(t)
  \/ \E t \in Threads : PPSetup(t)
  \/ \E t \in Threads : PPAtexit(t)
  \/ \E t \in Threads : PPInit(t)
  \/ Budget /\ \E t \in Threads, r \in 1..Len(runs), m \in MainDoubleMaps : BeginPPLog(t, r, m)
  \/ \E t \in Threads : PPLogDoubles(t)
  \/ Budget /\ \E t \in Threads, r \in 1..Len(runs) : PPFinish(t, r)
  \/ Exit
  \/ AtexitTeardown

Spec == Init /\ [][Next]_vars

(* --------------- the process with one thread (SpecSeq) ----------------- *)
\* every call that has a frame is made by the first thread, and no call begins
\* while another is in progress
NextSeq ==
  /\ Next
  /\ overlap' = overlap
  /\ \A u \in Threads \ {1} : th'[u] = th[u]
SpecSeq == Init /\ [][NextSeq]_vars

\* exit() runs every registered function before the process ends
FairSeq == SpecSeq /\ WF_vars(AtexitTeardown)

(* ---------------- Data::Data on every map (SpecData) ------------------- *)
\* the process after  auto run = wandb::initRun();  with a valid run handle
AfterInitRun ==
  /\ lib = "cpp"
  /\ phase = "running"
  /\ defaultSession_ = 1
  /\ nSessions = 1
  /\ atexitFns = <<"_session_teardown">>
  /\ calls = <<[op |-> "Setup", id |-> 1],
               [op |-> "Init", data |-> 0, name |-> "", runID |-> "", project |-> "",
                lib |-> LIB_CPP, ret |-> 1, id |-> 1]>>
  /\ runs = <<[num |-> 1]>>
  /\ finished = <<0>>
  /\ ops = 1
  /\ overlap = 0
  /\ th = [t \in Threads |-> Idle]

\* the same in the cpplib generation:  auto run = session.initRun();
AfterPPInitRun ==
  /\ lib = "cpplib"
  /\ phase = "running"
  /\ defaultSession_ = 0
  /\ nSessions = 0
  /\ atexitFns = <<"_session_teardown">>
  /\ calls = <<[op |-> "Setup", id |-> 1], [op |-> "Init", ret |-> 1, id |-> 1]>>
  /\ runs = <<[num |-> 1]>>
  /\ finished = <<0>>
  /\ ops = 1
  /\ overlap = 0
  /\ th = [t \in Threads |-> Idle]

\* one run.log(m) of the first thread, for every map m
NextData ==
  \/ ops = 1 /\ \E m \in AllMaps : BeginLog(1, 1, m)
  \/ \E k \in 1..Len(AddPcs) : DataAdd(1, k)
  \/ LogData(1)
  \/ ops = 1 /\ \E m \in DoubleMaps : BeginPPLog(1, 1, m)
  \/ PPLogDoubles(1)

InitData == AfterInitRun \/ AfterPPInitRun
SpecData == InitData /\ [][NextData]_vars

(* ------------- Session::initRun on every option list (SpecMerge) -------- *)
MergeConfigs == {MapConfig, MapNumText}
RECURSIVE SeqsUpTo(_, _)
SeqsUpTo(S, n) ==
  IF n = 0 THEN {<<>>}
  ELSE LET shorter == SeqsUpTo(S, n - 1)
       IN shorter \cup {Append(q, x) : q \in shorter, x \in S}
AllOptions ==
  {WithSettings(x) : x \in Settings} \cup {WithConfig(c) : c \in MergeConfigs}
    \cup {WithRunName(n) : n \in Names} \cup {WithRunID(n) : n \in Names}
    \cup {WithProject(n) : n \in Names}
AllOptionLists == SeqsUpTo(AllOptions, MaxOpts)

\* one wandb::initRun(options), for every option list, up to the call of _initRun
NextMerge ==
  \/ ops = 0 /\ \E o \in AllOptionLists : BeginInitRunFree(1, o)
  \/ GetInstanceCheck(1)
  \/ GetInstanceNew(1)
  \/ GetInstanceRet(1, Indeterminate(Settings), Indeterminate(MergeConfigs))

InitMerge == Init /\ lib = "cpp"
SpecMerge == InitMerge /\ [][NextMerge]_vars

(* -------- one run creation, for every option list (SpecCreate) --------- *)
NexusOptions ==
  {NexusWithSettings(x) : x \in Settings} \cup {NexusWithConfig(c) : c \in MergeConfigs}
    \cup {NexusWithName(n) : n \in NexusNames} \cup {NexusWithRunID(n) : n \in NexusNames}
NexusOptionLists == SeqsUpTo(NexusOptions, MaxOpts)

\* one wandb::initRun(options) of the first thread, or one wandb_init, through
\* to its return
NextCreate ==
  \/ ops = 0 /\ \E o \in AllOptionLists : BeginInitRunFree(1, o)
  \/ ops = 0 /\ \E o \in NexusOptionLists : BeginNexusInitRun(1, o)
  \/ GetInstanceCheck(1)
  \/ GetInstanceNew(1)
  \/ GetInstanceRet(1, Indeterminate(Settings), Indeterminate(MergeConfigs))
  \/ NexusGetInstanceRet(1, Indeterminate(Settings), Indeterminate(MergeConfigs),
                         Indeterminate(NexusNames))
  \/ SessionSetup(1)
  \/ SessionAtexit(1)
  \/ NexusAtexit(1)
  \/ \E k \in 1..Len(AddPcs) : DataAdd(1, k)
  \/ CoreInit(1)
  \/ NexusCoreInit(1)
  \/ ops = 0 /\ BeginCInit(1)
  \/ CSetup(1)
  \/ CAtexit(1)
  \/ CInit(1)

InitCreate ==
  /\ lib \in {"cpp", "nexus", "c", "clib"}
  /\ phase = "running"
  /\ defaultSession_ = 0
  /\ nSessions = 0
  /\ atexitFns = <<>>
  /\ calls = <<>>
  /\ runs = <<>>
  /\ finished = <<>>
  /\ ops = 0
  /\ overlap = 0
  /\ th = [t \in Threads |-> Idle]
SpecCreate == InitCreate /\ [][NextCreate]_vars

(* ------------- main of examples/train.cpp (SpecTrain) ------------------ *)
NLogs == 5   \* for (int i = 0; i < 5; i++)
\* histories with numeric and text entries
TrainMaps ==
  {MapNumText,
   (1 :> Val("int", 1)) @@ (2 :> Val("string", 2)),
   (1 :> Val("double", 1)) @@ (2 :> Val("int", 2)) @@ (3 :> Val("string", 1))}

\* initRun({WithConfig(config)}); NLogs times run.log(history); run.finish(); return 0;
NextTrain ==
  \/ ops = 0 /\ BeginInitRunFree(1, <<WithConfig(MapConfig)>>)
  \/ GetInstanceCheck(1)
  \/ GetInstanceNew(1)
  \/ GetInstanceRet(1, Indeterminate(Settings), Indeterminate(MergeConfigs))
  \/ SessionSetup(1)
  \/ SessionAtexit(1)
  \/ \E k \in 1..Len(AddPcs) : DataAdd(1, k)
  \/ CoreInit(1)
  \/ ops \in 1..NLogs /\ \E m \in TrainMaps : BeginLog(1, 1, m)
  \/ LogData(1)
  \/ ops = NLogs + 1 /\ Finish(1, 1)
  \/ ops = NLogs + 2 /\ Exit
  \/ AtexitTeardown

InitTrain == Init /\ lib = "cpp"
SpecTrain == InitTrain /\ [][NextTrain]_vars

(* ---------- two contexts logging on one Run (SpecLog2) ------------------- *)
\* the maps context t logs: at most two keys, every value marked with t
ContextMaps(t) ==
  {m \in AllMaps : DOMAIN m \subseteq {1, 2} /\ \A k \in DOMAIN m : m[k].v = t}

\* after the creation, two run.log calls by contexts 1 and 2, in any interleaving
NextLog2 ==
  \/ ops < 3 /\ \E t \in {1, 2} : \E m \in ContextMaps(t) : BeginLog(t, 1, m)
  \/ \E t \in {1, 2}, k \in 1..Len(AddPcs) : DataAdd(t, k)
  \/ \E t \in {1, 2} : LogData(t)

SpecLog2 == AfterInitRun /\ [][NextLog2]_vars

(* ======================= the claims, C1 to C10 ========================= *)
SetupCalls == Count(LAMBDA c : c.op = "Setup")

\* C1: over any sequence of run creations of one process the engine setup
\* operation is called at most once in total.
C1_SetupAtMostOnce == SetupCalls <= 1

\* C2: when every thread is inside its first run creation at the same time,
\* each past the setup call of _session_setup and none returned yet, the engine
\* setup operation has been called exactly once across them.
C2_ConcurrentSetupOnce ==
  (/\ runs = <<>>
   /\ \A t \in Threads : th[t].op = "initRun" /\ th[t].pc = "atexit")
  => SetupCalls = 1

\* C3: every data handle (not the sentinel) consumed by a log-data or init
\* engine call is released by exactly one free call once that call has
\* returned; in both bindings the consuming call is the last step of its API
\* call, so every consuming call in the log has returned.
C3_DataHandleFreedOnce ==
  \A i \in 1..Len(calls) :
    (calls[i].op \in {"LogData", "Init"} /\ "data" \in DOMAIN calls[i] /\ calls[i].data # 0)
    => Count(LAMBDA c : c.op = "DataFree" /\ c.h = calls[i].data) = 1

\* C4: a log call begun on a Run whose finish() has returned issues no engine
\* call.
C4_NoEngineCallAfterFinish ==
  \A t \in Threads :
    th[t].afterFinish => ~ \E i \in 1..Len(calls) : calls[i].id = th[t].id

\* C5: the engine finish operation is called at most once per run handle,
\* however often finish() is called on the Run that holds it.
C5_FinishAtMostOnce ==
  \A r \in 1..Len(runs) :
    runs[r].num # InvalidRun
    => Count(LAMBDA c : c.op = "Finish" /\ c.run = runs[r].num) <= 1

\* C6: engine teardown is called at most once per process however many runs
\* were created: counted over the calls the exit hooks make (id 0), which no
\* caller controls.
C6_TeardownAtMostOnce == Count(LAMBDA c : c.op = "Teardown" /\ c.id = 0) <= 1

\* C7: every engine teardown call is preceded by an engine setup call.
C7_TeardownOnlyAfterSetup ==
  \A i \in 1..Len(calls) :
    calls[i].op = "Teardown" => \E j \in 1..(i - 1) : calls[j].op = "Setup"

\* the frames of Data::Data, and of Run::log of the cpplib generation, past the
\* loop, the vectors filled from a live map
PastLoop(t) ==
  /\ th[t].myMap.kind = "obj"
  /\ th[t].pc \in {"add_dbl", "add_int", "add_str", "logdata", "init", "pp_logdoubles"}
BatchKeys(b) == b.keyInts \o b.keyDoubles \o b.keyStrings
Occurrences(q, x) == Cardinality({i \in 1..Len(q) : q[i] = x})

\* C8: past the loop of Data::Data every key of the map is in exactly one of
\* the three key vectors, exactly once, and the vectors hold no other key.
C8_EveryKeyInOneBatchOnce ==
  \A t \in Threads :
    PastLoop(t) =>
      LET m == th[t].myMap.obj
          q == BatchKeys(th[t].b)
      IN /\ \A key \in DOMAIN m : Occurrences(q, key) = 1
         /\ \A i \in 1..Len(q) : q[i] \in DOMAIN m

\* a log of a map with an entry of each of the three types has reached its
\* log-data call
C8_Witness ==
  \E t \in Threads :
    /\ PastLoop(t) /\ th[t].pc = "logdata"
    /\ Len(th[t].b.keyInts) >= 1 /\ Len(th[t].b.keyDoubles) >= 1
    /\ Len(th[t].b.keyStrings) >= 1

Paired(m, keys, vals, tag) ==
  /\ Len(keys) = Len(vals)
  /\ \A i \in 1..Len(keys) : keys[i] \in DOMAIN m /\ m[keys[i]] = Val(tag, vals[i])

\* C9: in each of the three batches the i-th value is the value the map holds
\* for the i-th key.
C9_KeyValuePairing ==
  \A t \in Threads :
    PastLoop(t) =>
      LET m == th[t].myMap.obj
          b == th[t].b
      IN /\ Paired(m, b.keyInts, b.valInts, "int")
         /\ Paired(m, b.keyDoubles, b.valDoubles, "double")
         /\ Paired(m, b.keyStrings, b.valStrings, "string")

\* a log of a map with two int entries of different values and a double entry
\* has reached its log-data call
C9_Witness ==
  \E t \in Threads :
    /\ PastLoop(t) /\ th[t].pc = "logdata"
    /\ Len(th[t].b.keyInts) = 2 /\ th[t].b.valInts[1] # th[t].b.valInts[2]
    /\ Len(th[t].b.keyDoubles) = 1

\* the options of the list that set a field, by their class
Setters(options, kind) == {i \in 1..Len(options) : options[i].kind = kind}
Last(S) == CHOOSE i \in S : \A j \in S : j <= i
SamePtr(p, q) == p.kind = q.kind /\ (p.kind = "obj" => p.obj = q.obj)

\* C10: at the call of _initRun each field carries the value of the last
\* option of the list that sets that field.
C10_LastOptionWins ==
  \A t \in Threads :
    th[t].pc = "setup" =>
      LET o == th[t].opts
          s == Setters(o, "WithSettings")
          c == Setters(o, "WithConfig")
          n == Setters(o, "WithRunName")
          i == Setters(o, "WithRunID")
          p == Setters(o, "WithProject")
      IN /\ s # {} => SamePtr(th[t].settings, o[Last(s)].settings)
         /\ c # {} => SamePtr(th[t].config, o[Last(c)].config)
         /\ n # {} => th[t].name = o[Last(n)].name
         /\ i # {} => th[t].runID = o[Last(i)].runID
         /\ p # {} => th[t].project = o[Last(p)].project

(* ======================= the claims, C11 to C20 ======================== *)
\* C11: a run creation whose option list holds no WithConfig option does not
\* fault in new Data(config), makes no wandbcoreDataAdd* call, and reaches
\* wandbcoreInit with the "no data" handle 0.
C11_NoConfigNoData ==
  \A t \in Threads :
    (th[t].op = "initRun" /\ Setters(th[t].opts, "WithConfig") = {}) =>
      /\ th[t].myMap.kind # "wild"
      /\ th[t].pc \notin {"add_dbl", "add_int", "add_str"}
      /\ th[t].pc \in {"init", "nx_init"} => th[t].num = 0

\* C12: at the call of wandbcoreInit a field that no option of the list sets is
\* passed as the empty string (as no string at all where the binding passes
\* pointers), for each of name, runID and project.
C12_UnsetFieldsEmpty ==
  \A t \in Threads :
    LET o == th[t].opts
    IN /\ th[t].pc = "init" =>
            /\ Setters(o, "WithRunName") = {} => th[t].name = ""
            /\ Setters(o, "WithRunID") = {} => th[t].runID = ""
            /\ Setters(o, "WithProject") = {} => th[t].project = ""
       /\ th[t].pc = "nx_init" =>
            /\ Setters(o, "WithName") = {} => th[t].name.kind = "null"
            /\ Setters(o, "WithRunID") = {} => th[t].runID.kind = "null"

\* C13: a creation whose wandbcoreInit returned a non-valid run handle hands no
\* Run to the caller: every Run that came out of a creation holds a valid handle.
C13_NoRunOnInitFailure ==
  \A r \in 1..Len(runs) :
    "ctor" \notin DOMAIN runs[r] => runs[r].num # InvalidRun

\* C14: no wandbcoreDataAdd* call is made with a count of 0.
C14_NoEmptyAdd == \A i \in 1..Len(calls) : IsAdd(calls[i]) => calls[i].n > 0

\* a log of a map with entries of one type only has made its log-data call,
\* after one add call: the add calls of the other two types were left out
C14_Witness ==
  /\ \E i \in 1..Len(calls) : calls[i].op = "LogData" /\ calls[i].data # 0
  /\ Count(IsAdd) = 1

\* the calls that consume data handle h, and the calls that mention it
Consumers(h) ==
  {i \in 1..Len(calls) :
     calls[i].op \in {"LogData", "Init"} /\ "data" \in DOMAIN calls[i] /\ calls[i].data = h}
Mentions(i, h) ==
  \/ IsAdd(calls[i]) /\ (calls[i].h = h \/ calls[i].ret = h)
  \/ i \in Consumers(h)
InProgress(id) == \E t \in Threads : th[t].pc # "idle" /\ th[t].id = id

\* C15: a data handle the engine created is passed to at most one consuming
\* call (log-data or init), to exactly one once the API call that built it has
\* returned, and no engine call mentions it after a free call for it.
C15_HandleConsumedOnce ==
  \A i \in 1..Len(calls) :
    (IsAdd(calls[i]) /\ calls[i].h = WANDBCORE_DATA_CREATE) =>
      LET h == calls[i].ret
      IN /\ Cardinality(Consumers(h)) <= 1
         /\ ~InProgress(calls[i].id) => Cardinality(Consumers(h)) = 1
         /\ \A j, k \in 1..Len(calls) :
              (j < k /\ calls[j].op = "DataFree" /\ calls[j].h = h) => ~Mentions(k, h)

\* the config handle was consumed by the init call and the handles of two logs
\* by their log-data calls
C15_Witness ==
  /\ \E i \in 1..Len(calls) : calls[i].op = "Init" /\ calls[i].data # 0
  /\ Cardinality({i \in 1..Len(calls) : calls[i].op = "LogData" /\ calls[i].data # 0}) >= 2
  /\ \A t \in Threads : th[t].pc = "idle"

\* C16: at most one Session object is ever constructed in a process.
C16_OneSession == nSessions <= 1

\* the engine calls that log, finish or initialise a run
IsRunCall(c) == c.op \in {"Init", "LogData", "LogDoubles", "LogScaler", "Finish"}

\* C17: every log, finish or run-initialisation engine call is made after an
\* engine setup call and after no engine teardown call.
C17_RunCallsOnlyWhenReady ==
  \A i \in 1..Len(calls) :
    IsRunCall(calls[i]) =>
      /\ \E j \in 1..(i - 1) : calls[j].op = "Setup"
      /\ \A j \in 1..(i - 1) : calls[j].op # "Teardown"

\* what the engine holds under data handle h: the entries of the add calls
\* that returned h, as <<key, type, value>>
TagOf(op) ==
  IF op = "DataAddInts" THEN "int" ELSE IF op = "DataAddDoubles" THEN "double" ELSE "string"
HandleEntries(h) ==
  UNION {{<<calls[i].keys[j], TagOf(calls[i].op), calls[i].vals[j]>> : j \in 1..calls[i].n} :
           i \in {i \in 1..Len(calls) : IsAdd(calls[i]) /\ calls[i].ret = h}}
MapEntries(m) == {<<k, m[k].tag, m[k].v>> : k \in DOMAIN m}
At(op) == {i \in 1..Len(calls) : calls[i].op = op}

\* C18: in main of train.cpp the handle about to be passed to wandbcoreInit
\* holds the three entries of config, the handle about to be passed to each
\* wandbcoreLogData holds the entries of the map of that log, and once finish()
\* was called the engine has seen one init call, then NLogs log-data calls for
\* the run handle that call returned, then one finish call for it, and no call
\* with a run handle after that.
C18_TrainSequence ==
  /\ \A t \in Threads :
       /\ th[t].pc = "init" => HandleEntries(th[t].num) = MapEntries(MapConfig)
       /\ th[t].pc = "logdata" => HandleEntries(th[t].num) = MapEntries(th[t].myMap.obj)
  /\ At("Finish") # {} =>
       /\ Cardinality(At("Init")) = 1
       /\ Cardinality(At("LogData")) = NLogs
       /\ Cardinality(At("Finish")) = 1
       /\ \A i \in At("Init"), l \in At("LogData"), f \in At("Finish") :
            /\ i < l /\ l < f
            /\ calls[l].run = calls[i].ret /\ calls[f].run = calls[i].ret
            /\ HandleEntries(calls[i].data) = MapEntries(MapConfig)
            /\ \E m \in TrainMaps : HandleEntries(calls[l].data) = MapEntries(m)
            /\ \A k \in (f + 1)..Len(calls) : "run" \notin DOMAIN calls[k]

\* main has returned and the exit hooks have run, after a creation that got a
\* valid run handle, NLogs logs and finish
C18_Witness ==
  /\ phase = "exited"
  /\ \E i \in At("Init") : calls[i].ret # InvalidRun /\ calls[i].data # 0
  /\ Cardinality(At("LogData")) = NLogs
  /\ At("Finish") # {}

\* the data handles the engine calls of API call id mention
HandlesOf(id) ==
  {calls[i].ret : i \in {i \in 1..Len(calls) : IsAdd(calls[i]) /\ calls[i].id = id}}
    \cup ({calls[i].data : i \in {i \in 1..Len(calls) : calls[i].op = "LogData" /\ calls[i].id = id}}
            \ {0})
LogIds == {calls[i].id : i \in {i \in 1..Len(calls) : IsAdd(calls[i]) \/ calls[i].op = "LogData"}}

\* C19: two Run::log calls, overlapping or not, mention no common data handle,
\* and the handle each is about to pass to wandbcoreLogData holds exactly the
\* entries of the map given to that call.
C19_LogsShareNoHandle ==
  /\ \A a, b \in LogIds : a # b => HandlesOf(a) \cap HandlesOf(b) = {}
  /\ \A t \in Threads :
       th[t].pc = "logdata" =>
         /\ HandleEntries(th[t].num) = MapEntries(th[t].myMap.obj)
         /\ th[t].num # 0 => HandlesOf(th[t].id) = {th[t].num}

\* both contexts are inside Run::log at once, each with the handle of a map
\* of two entries of different types, about to call wandbcoreLogData
C19_Witness ==
  /\ th[1].pc = "logdata" /\ th[2].pc = "logdata"
  /\ th[1].num # 0 /\ th[2].num # 0 /\ th[1].num # th[2].num
  /\ Cardinality(HandleEntries(th[1].num)) = 2 /\ Cardinality(HandleEntries(th[2].num)) = 2

\* C20: two executions of the option merge of Session::initRun on the same
\* option list, each at its call of _initRun, carry the same settings, config,
\* name, runID and project.
C20_MergeDeterministic ==
  \A t, u \in Threads :
    (/\ th[t].op = "initRun" /\ th[t].pc = "setup"
     /\ th[u].op = "initRun" /\ th[u].pc = "setup"
     /\ th[t].opts = th[u].opts)
    => /\ th[t].settings = th[u].settings
       /\ th[t].config = th[u].config
       /\ th[t].name = th[u].name
       /\ th[t].runID = th[u].runID
       /\ th[t].project = th[u].project

(* ------ two run creations of one process, side by side (SpecPair) ------ *)
PairOptionLists ==
  {<<>>, <<WithSettings("s1")>>, <<WithSettings("s2")>>,
   <<WithRunName("a")>>, <<WithSettings("s1"), WithRunName("a")>>,
   <<WithConfig(MapConfig)>>, <<WithConfig(MapConfig), WithSettings("s1")>>}

\* each thread makes one wandb::initRun(options), through to its return
NextPair ==
  \/ \E t \in Threads, o \in PairOptionLists : ops < NThreads /\ BeginInitRunFree(t, o)
  \/ \E t \in Threads : GetInstanceCheck(t)
  \/ \E t \in Threads : GetInstanceNew(t)
  \/ \E t \in Threads : GetInstanceRet(t, Indeterminate(Settings), Indeterminate({MapConfig}))
  \/ \E t \in Threads : SessionSetup(t)
  \/ \E t \in Threads : SessionAtexit(t)
  \/ \E t \in Threads, k \in 1..Len(AddPcs) : DataAdd(t, k)
  \/ \E t \in Threads : CoreInit(t)

SpecPair == InitMerge /\ [][NextPair]_vars

(* ======================= the claims, C21 to C30 ======================== *)
LogOps == {"log", "wandb_log_scaler"}
LogCallOps ==
  {"DataAddDoubles", "DataAddInts", "DataAddStrings", "LogData", "LogDoubles", "LogScaler"}
\* a step of a log call: a thread enters, advances in or leaves Run::log /
\* wandb_log_scaler, or an engine call of a log is issued
LogStep ==
  \/ \E t \in Threads : th'[t] # th[t] /\ (th[t].op \in LogOps \/ th'[t].op \in LogOps)
  \/ \E i \in (Len(calls) + 1)..Len(calls') : calls'[i].op \in LogCallOps

\* C21: a step of a log call issues no engine call other than add and log
\* calls (no finish, no teardown) and changes no Run: the handles of all Runs
\* and their finish counts stay as they were.
C21_LogLeavesRunAlone ==
  [][LogStep =>
       /\ runs' = runs
       /\ finished' = finished
       /\ \A i \in (Len(calls) + 1)..Len(calls') : calls'[i].op \in LogCallOps]_vars

\* a log on a Run has returned and finish was then called on the same Run,
\* with the handle the log used
C21_Witness ==
  \E i, k \in 1..Len(calls) :
    /\ i < k
    /\ calls[i].op \in {"LogData", "LogDoubles", "LogScaler"}
    /\ calls[k].op = "Finish"
    /\ calls[i].run = calls[k].run /\ calls[i].run # InvalidRun

\* the API calls that are logs of lib "cpp": those that made an add or log-data
\* call and no setup call
CallsOf(id, P(_)) == {i \in 1..Len(calls) : calls[i].id = id /\ P(calls[i])}
IsLogData(c) == c.op = "LogData"
IsSetup(c) == c.op = "Setup"
CppLogIds ==
  {calls[i].id : i \in {i \in 1..Len(calls) : IsAdd(calls[i]) \/ IsLogData(calls[i])}}
    \ {calls[i].id : i \in {i \in 1..Len(calls) : IsSetup(calls[i])}}
NonEmptyBatches(b) == {k \in 1..Len(AddPcs) : Len(AddKeys(b, AddPcs[k])) # 0}

\* C22: a Run::log call makes at most one wandbcoreLogData call, exactly one
\* once it has returned, after every add call it makes; and when it is about to
\* make it, one add call has been made for each non-empty batch of its map.
C22_OneLogDataAfterAdds ==
  /\ \A id \in CppLogIds :
       /\ Cardinality(CallsOf(id, IsLogData)) <= 1
       /\ ~InProgress(id) => Cardinality(CallsOf(id, IsLogData)) = 1
       /\ \A a \in CallsOf(id, IsAdd), l \in CallsOf(id, IsLogData) : a < l
  /\ \A t \in Threads :
       (th[t].op = "log" /\ th[t].pc = "logdata") =>
         Cardinality(CallsOf(th[t].id, IsAdd)) = Cardinality(NonEmptyBatches(th[t].b))

\* two logs have returned, one of a map with batches of two types: each made
\* its add calls and then its one log-data call
C22_Witness ==
  /\ \A t \in Threads : th[t].pc = "idle"
  /\ Cardinality(CppLogIds) = 2
  /\ \E id \in CppLogIds : Cardinality(CallsOf(id, IsAdd)) = 2

\* the position in the call log of the k-th engine init call
InitAt(k) ==
  CHOOSE i \in At("Init") : Cardinality({j \in At("Init") : j <= i}) = k

\* C23: in the C bindings every wandb_init that has returned gave 0 to its
\* caller and left in run->num the handle its engine init call returned, valid
\* or not.
C23_InitReturnsZero ==
  IsC =>
    /\ Len(runs) = Cardinality(At("Init"))
    /\ \A k \in 1..Len(runs) :
         /\ runs[k].rc = 0
         /\ runs[k].num = calls[InitAt(k)].ret

\* two wandb_init calls have returned, the first after the engine gave a
\* non-valid handle, the second after it gave a valid one
C23_Witness ==
  /\ IsC /\ Len(runs) = 2
  /\ runs[1].num = InvalidRun /\ runs[2].num # InvalidRun

AtexitPcs == {"atexit", "c_atexit", "pp_atexit"}
HookTeardowns == {i \in At("Teardown") : calls[i].id = 0}

\* C24: once a setup path has passed its atexit() call a teardown function is
\* registered, and if engine setup was called and the process exits normally
\* then the exit ends with engine teardown called by a registered function.
C24_TeardownAtExit ==
  /\ []((phase = "running" /\ SetupCalls > 0 /\ \A t \in Threads : th[t].pc \notin AtexitPcs)
          => atexitFns # <<>>)
  /\ ((SetupCalls > 0 /\ phase \in {"exiting", "exited"})
        ~> (phase = "exited" /\ HookTeardowns # {}))

\* the process has exited after a run creation and the exit hook has called
\* engine teardown
C24_Witness ==
  /\ phase = "exited" /\ SetupCalls > 0 /\ HookTeardowns # {}
  /\ \E i \in At("Setup") : \A j \in HookTeardowns : i < j

Only(o, kind) == Cardinality(Setters(o, kind)) = 1
The(o, kind) == o[CHOOSE i \in Setters(o, kind) : TRUE]

\* C25: at the call of _initRun a field that exactly one option of the list
\* sets carries the value of that option, whatever options for other fields
\* come after it.
C25_OptionSetsOneField ==
  \A t \in Threads :
    (th[t].op = "initRun" /\ th[t].pc = "setup") =>
      LET o == th[t].opts
      IN /\ Only(o, "WithSettings") => th[t].settings = The(o, "WithSettings").settings
         /\ Only(o, "WithConfig") => th[t].config = The(o, "WithConfig").config
         /\ Only(o, "WithRunName") => th[t].name = The(o, "WithRunName").name
         /\ Only(o, "WithName") => th[t].name = The(o, "WithName").name
         /\ Only(o, "WithRunID") => th[t].runID = The(o, "WithRunID").runID
         /\ Only(o, "WithProject") => th[t].project = The(o, "WithProject").project

TypeRank(op) == IF op = "DataAddDoubles" THEN 1 ELSE IF op = "DataAddInts" THEN 2 ELSE 3
IsConsumer(c) == c.op \in {"LogData", "Init"} /\ "data" \in DOMAIN c
AddIds == {calls[i].id : i \in {i \in 1..Len(calls) : IsAdd(calls[i])}}
Adjacent(S, a, b) == a \in S /\ b \in S /\ a < b /\ ~ \E c \in S : a < c /\ c < b
LastOf(S) == CHOOSE a \in S : \A c \in S : c <= a

\* C26: among the add calls of one Data construction the first receives
\* WANDBCORE_DATA_CREATE, each later one receives the handle the one before it
\* returned, doubles come before ints and ints before strings, and the
\* consuming log-data or init call receives the handle the last one returned.
C26_HandleThreaded ==
  \A id \in AddIds :
    LET S == CallsOf(id, IsAdd)
    IN /\ \A a \in S : (\A c \in S : a <= c) => calls[a].h = WANDBCORE_DATA_CREATE
       /\ \A a, b \in S :
            Adjacent(S, a, b) =>
              /\ calls[b].h = calls[a].ret
              /\ TypeRank(calls[a].op) < TypeRank(calls[b].op)
       /\ \A c \in CallsOf(id, IsConsumer) :
            /\ LastOf(S) < c
            /\ calls[c].data = calls[LastOf(S)].ret

\* a log of a map with entries of all three types has made three add calls
\* and then its log-data call
C26_Witness ==
  \E id \in AddIds :
    /\ Cardinality(CallsOf(id, IsAdd)) = 3
    /\ CallsOf(id, IsConsumer) # {}

HasId(id) == {i \in 1..Len(calls) : calls[i].id = id}
CreationIds == {calls[i].id : i \in At("Setup") \cup At("Init")}
IsInit(c) == c.op = "Init"

\* C27: the engine calls of one run creation are one setup call, then the add
\* calls that build the config handle, then one init call that carries the
\* handle the last add call returned (0 without add calls); a creation that has
\* returned has made its init call.
C27_CreationOrder ==
  \A id \in CreationIds :
    LET S == CallsOf(id, IsSetup)
        A == CallsOf(id, IsAdd)
        I == CallsOf(id, IsInit)
    IN /\ Cardinality(S) = 1
       /\ Cardinality(I) <= 1
       /\ ~InProgress(id) => Cardinality(I) = 1
       /\ \A s \in S, k \in HasId(id) : s <= k
       /\ \A a \in A, i \in I : a < i
       /\ \A i \in I :
            "data" \in DOMAIN calls[i] =>
              calls[i].data = IF A = {} THEN 0 ELSE calls[LastOf(A)].ret

\* a creation with a config of three types has returned: setup, three add
\* calls, init
C27_Witness ==
  \E id \in CreationIds :
    /\ ~InProgress(id)
    /\ Cardinality(CallsOf(id, IsAdd)) = 3
    /\ \E i \in CallsOf(id, IsInit) : calls[i].data # 0

\* the Runs that a run creation returned, in the order they were returned
Created == SelectSeq(runs, LAMBDA r : "ctor" \notin DOMAIN r)
NewCalls == {i \in (Len(calls) + 1)..Len(calls') : calls'[i].op \in {"LogData", "Finish"}}
\* the Run a step's log-data or finish call is made through: the one the
\* finish count moves on, or the one in the frame of the log that returns
Through(r) ==
  /\ r \in 1..Len(runs)
  /\ \/ finished'[r] # finished[r]
     \/ \E t \in Threads : th[t].op \in LogOps /\ th'[t].pc = "idle" /\ th[t].run = r

\* C28: the k-th Run returned by a creation holds the handle the k-th engine
\* init call returned; no step changes the handle of an existing Run; every
\* log-data or finish call is made through a Run and carries the handle that
\* Run holds.
C28_RunKeepsHandle ==
  /\ [](/\ Len(Created) = Cardinality(At("Init"))
        /\ \A k \in 1..Len(Created) : Created[k].num = calls[InitAt(k)].ret)
  /\ [][/\ Len(runs') >= Len(runs)
        /\ \A r \in 1..Len(runs) : runs'[r] = runs[r]
        /\ \A i \in NewCalls :
             /\ \E r \in 1..Len(runs) : Through(r)
             /\ \A r \in 1..Len(runs) : Through(r) => calls'[i].run = runs[r].num]_vars

\* two creations have returned Runs with different handles, and a log-data or
\* finish call was made through the second one
C28_Witness ==
  /\ Len(Created) = 2 /\ Created[1].num # Created[2].num
  /\ \E i \in At("LogData") \cup At("Finish") : calls[i].run = Created[2].num

\* C29: inside the free wandb::initRun(options), GetInstance constructs a
\* Session only in a step where no default session exists, and the call then
\* proceeds as initRun(options) on the most recently constructed Session, with
\* the name, run id and project that the options resolve to.
C29_FreeInitRunUsesDefault ==
  [][\A t \in Threads :
       /\ (th[t].pc = "gi_new" /\ nSessions' # nSessions) => defaultSession_ = 0
       /\ (th[t].pc = "gi_ret" /\ th'[t].pc = "setup") =>
            LET r == MergeLoop(th[t].opts, Locals(Null, Null))
            IN /\ nSessions > 0 /\ th'[t].session = nSessions
               /\ th'[t].name = r.name /\ th'[t].runID = r.runID
               /\ th'[t].project = r.project]_vars

StringKinds == [WithRunName |-> "name", WithRunID |-> "runID", WithProject |-> "project"]
\* the options of one kind that carry a non-empty string
NonEmpty(options, kind) ==
  {i \in Setters(options, kind) : options[i][StringKinds[kind]] # ""}
Merged(t) == IsCpp /\ th[t].op = "initRun" /\ th[t].pc = "setup"

\* C30: the name, run id and project that Session::initRun resolves are those
\* of the last WithRunName, WithRunID and WithProject option carrying a
\* non-empty string, and empty when there is none: an option of these kinds
\* that carries "" changes nothing, as if it were not in the list.
C30_EmptyStringIsAbsent ==
  \A t \in Threads :
    Merged(t) =>
      \A kind \in DOMAIN StringKinds :
        LET S == NonEmpty(th[t].opts, kind)
        IN th[t][StringKinds[kind]] =
             IF S = {} THEN "" ELSE th[t].opts[Last(S)][StringKinds[kind]]

\* WithRunName("a") followed by WithRunName("") has been merged: the name is "a"
C30_Witness ==
  \E t \in Threads :
    /\ Merged(t)
    /\ th[t].opts = <<WithRunName("a"), WithRunName("")>>
    /\ th[t].name = "a"

(* ======================= the claims, C31 to C33 ======================== *)
\* an option list without its WithSettings options
StripSettings(options) == SelectSeq(options, LAMBDA o : o.kind # "WithSettings")
\* the creation of thread t has made its setup and add calls and is at its
\* engine init call
AtInit(t) == IsCpp /\ th[t].op = "initRun" /\ th[t].pc = "init"

\* C31: two run creations whose option lists differ only in WithSettings
\* options reach the engine init call with the same arguments: the same name,
\* run id and project, and config handles that are both 0 or both hold the
\* same entries from their add calls.
C31_SettingsNeverReachEngine ==
  \A t, u \in Threads :
    (AtInit(t) /\ AtInit(u) /\ StripSettings(th[t].opts) = StripSettings(th[u].opts))
    => /\ th[t].name = th[u].name
       /\ th[t].runID = th[u].runID
       /\ th[t].project = th[u].project
       /\ (th[t].num = 0) <=> (th[u].num = 0)
       /\ HandleEntries(th[t].num) = HandleEntries(th[u].num)

\* thread t is inside run.log(m) of lib "cpp" with a map m of zero entries
LogsEmptyMap(t) ==
  /\ IsCpp /\ th[t].op = "log"
  /\ th[t].myMap.kind = "obj" /\ DOMAIN th[t].myMap.obj = {}

\* C32: a Run::log of a map with zero entries makes no add call, and the step
\* in which it returns makes its only engine call: one log-data call whose
\* data handle is WANDBCORE_DATA_CREATE.
C32_EmptyMapLogsSentinel ==
  [][\A t \in Threads :
       LogsEmptyMap(t) =>
         /\ \A i \in (Len(calls) + 1)..Len(calls') : calls'[i].op = "LogData"
         /\ th'[t].pc = "idle" =>
              /\ Len(calls') = Len(calls) + 1
              /\ calls'[Len(calls')].op = "LogData"
              /\ calls'[Len(calls')].id = th[t].id
              /\ calls'[Len(calls')].data = WANDBCORE_DATA_CREATE
              /\ {i \in 1..Len(calls') : calls'[i].id = th[t].id} = {Len(calls')}]_vars

\* a log has returned whose only engine call is a log-data call with the
\* sentinel handle
C32_Witness ==
  /\ IsCpp /\ \A t \in Threads : th[t].pc = "idle"
  /\ \E i \in At("LogData") :
       /\ calls[i].data = WANDBCORE_DATA_CREATE
       /\ HasId(calls[i].id) = {i}

\* the entries a log-doubles call carries
DoublesEntries(c) == {<<c.keys[j], "double", c.vals[j]>> : j \in 1..c.n}
\* thread t is inside run.log(m) of lib "cpplib", its keys and values filled
InPPLog(t) == IsCpplib /\ th[t].op = "log" /\ th[t].pc = "pp_logdoubles"

\* C33: in lib "cpplib" the step that ends a run.log(m) is its return after one
\* log-doubles call, the only engine call of that log, which carries every
\* entry of m with commit flag 1; no other kind of call closes a record.
C33_LogCommitsItself ==
  [][\A t \in Threads :
       (InPPLog(t) /\ (th'[t] # th[t] \/ phase' # phase)) =>
         /\ phase' = phase /\ th'[t].pc = "idle"
         /\ Len(calls') = Len(calls) + 1
         /\ LET c == calls'[Len(calls')]
            IN /\ c.op = "LogDoubles" /\ c.id = th[t].id /\ c.commit = 1
               /\ c.run = runs[th[t].run].num
               /\ DoublesEntries(c) = MapEntries(th[t].myMap.obj)
               /\ c.n = Cardinality(DOMAIN th[t].myMap.obj)
         /\ {i \in 1..Len(calls') : calls'[i].id = th[t].id} = {Len(calls')}]_vars

====
